---- MODULE Spec2Model ----
(***************************************************************************)
(* ADSREnvelope<T> (IPlug/Extras/ADSREnvelope.h) as a state machine.       *)
(*                                                                         *)
(* Numbers.  T is a floating-point type; here every T value is a fixed-    *)
(* point integer counted in units of 1/T_1, so T_1 stands for 1.0.         *)
(* T_1 = 26460 = 2646 * 10 makes the two increments the constructor        *)
(* computes for 44100 Hz exact: 1/882 = 30 units and 10/1323 = 200 units.  *)
(* Products are rounded away from zero to the grid (Mul), as a float       *)
(* product is rounded to its own grid.  Comparisons against the two        *)
(* thresholds are exact for grid values (see ENV_VALUE_LOW/HIGH).          *)
(* Times are counted in 1/441 ms (MIN_ENV_TIME_MS is 10 such units) and    *)
(* sample rates in units of 100 Hz, so that both are integers.             *)
(***************************************************************************)
EXTENDS Integers, Sequences, FiniteSets, TLC

VARIABLES
  mEarlyReleaseIncr, mRetriggerReleaseIncr, mAttackIncr, mDecayIncr,
  mReleaseIncr, mSampleRate, mEnvValue, mStage, mLevel, mReleaseLevel,
  mNewStartLevel, mPrevResult, mPrevOutput, mScalar, mReleased,
  mSustainEnabled, mResetFunc, mEndReleaseFunc,
  resetCalls,       \* how many times the last call invoked mResetFunc()
  endReleaseCalls,  \* how many times the last call invoked mEndReleaseFunc()
  calls,            \* how many calls started a stage: Start, Release, Retrigger, soft Kill
  ret               \* what the last call returned: <<sample>> for Process, <<>> for void

coeffs == <<mEarlyReleaseIncr, mRetriggerReleaseIncr, mAttackIncr, mDecayIncr,
            mReleaseIncr, mSampleRate>>
funcs == <<mResetFunc, mEndReleaseFunc>>
vars == <<mEarlyReleaseIncr, mRetriggerReleaseIncr, mAttackIncr, mDecayIncr,
          mReleaseIncr, mSampleRate, mEnvValue, mStage, mLevel, mReleaseLevel,
          mNewStartLevel, mPrevResult, mPrevOutput, mScalar, mReleased,
          mSustainEnabled, mResetFunc, mEndReleaseFunc,
          resetCalls, endReleaseCalls, calls, ret>>

----------------------------------------------------------------------------
(* EStage *)
kReleasedToEndEarly == -3
kReleasedToRetrigger == -2
kIdle == -1
kAttack == 0
kDecay == 1
kSustain == 2
kRelease == 3
EStage == {kReleasedToEndEarly, kReleasedToRetrigger, kIdle, kAttack, kDecay,
           kSustain, kRelease}

(* The constants of the class. *)
T_0 == 0
T_1 == 26460
EARLY_RELEASE_TIME == 8820          \* 20 ms
RETRIGGER_RELEASE_TIME == 1323      \* 3 ms
MIN_ENV_TIME_MS == 10               \* 1 sample @44100 = 10/441 ms
MAX_ENV_TIME_MS == 26460000         \* 60000 ms
\* the 1000. (ms per second) of the two CalcIncr functions, in the units above:
\* sr * timeMS / MsPerSec is the length of a stage in samples
MsPerSec == 4410
DefaultSampleRate == 441            \* 44100 Hz
\* v < 0.000001 for a grid value v: v * 1000000 < T_1, i.e. v < ceil(T_1 / 1000000)
ENV_VALUE_LOW == (T_1 + 999999) \div 1000000
\* v > 0.999 for a grid value v: v * 1000 > 999 * T_1, i.e. v > floor(999 * T_1 / 1000)
ENV_VALUE_HIGH == (999 * T_1) \div 1000

----------------------------------------------------------------------------
(* Arithmetic of T on the grid. *)
Abs(a) == IF a < 0 THEN -a ELSE a
Sgn(a) == IF a < 0 THEN -1 ELSE 1
\* a * b, rounded away from zero; the whole part of a is multiplied apart so
\* that no intermediate value leaves the range of the model checker's integers
Mul(a, b) ==
  Sgn(a) * Sgn(b) * ((Abs(a) \div T_1) * Abs(b)
                      + ((Abs(a) % T_1) * Abs(b) + (T_1 - 1)) \div T_1)
\* a / b for b > 0, rounded to nearest
Div(a, b) == (2 * a * T_1 + b) \div (2 * b)
Clip(x, lo, hi) == IF x < lo THEN lo ELSE IF x > hi THEN hi ELSE x

\* 10^(-1/2), 10^(-1/4), 10^(-1/8), ... on the grid
Root10 == <<8367, 14880, 19842, 22913, 24623, 25525, 25988, 26223, 26341,
            26401, 26430, 26445>>
RECURSIVE Pow10Frac(_, _, _, _)
\* acc * 10^(-rem/q) for 0 <= rem < q, by the binary expansion of rem/q
Pow10Frac(rem, q, i, acc) ==
  IF rem = 0 \/ i > Len(Root10) THEN acc
  ELSE IF 2 * rem >= q THEN Pow10Frac(2 * rem - q, q, i + 1, Mul(acc, Root10[i]))
  ELSE Pow10Frac(2 * rem, q, i + 1, acc)
RECURSIVE Pow10(_)
Pow10(m) == IF m = 0 THEN 1 ELSE 10 * Pow10(m - 1)
\* v / 10^m for 0 <= v <= T_1, rounded to nearest (0 once 10^m > 2 * T_1)
Tenth(v, m) == IF m >= 5 THEN 0 ELSE (2 * v + Pow10(m)) \div (2 * Pow10(m))
\* exp(p * log(0.001) / q) = 10^(-3p/q)
ExpLog001(p, q) == Tenth(Pow10Frac((3 * p) % q, q, 1, T_1), (3 * p) \div q)

(* T((1./sr) / (timeMS/1000.)), rounded to nearest *)
\* the linear increment of a ramp twice as long (timeMS/500.)
CalcIncrFromTimeLinearHalf(timeMS, sr) ==
  IF timeMS <= 0 THEN 0 ELSE (T_1 * MsPerSec + sr * timeMS) \div (2 * sr * timeMS)

CalcIncrFromTimeLinear(timeMS, sr) ==
  IF timeMS <= 0 THEN 0
  ELSE (2 * T_1 * MsPerSec + sr * timeMS) \div (2 * sr * timeMS)

(* -expm1(1000.0 * log(0.001) / (sr * timeMS)), at most 1 *)
CalcIncrFromTimeExp(timeMS, sr) ==
  IF timeMS <= 0 THEN 0
  ELSE LET r == T_1 - ExpLog001(MsPerSec, sr * timeMS)
       IN IF ~(r < T_1) THEN T_1 ELSE r

----------------------------------------------------------------------------
(* The arguments the callers pass. *)
Levels == {21168, T_1}                 \* level, newStartLevel: 0.8, 1.0
TimeScalars == {13230, T_1}            \* timeScalar: 0.5, 1.0
SustainLevels == {0, 13230}            \* sustainLevel: 0.0, 0.5
StageTimes == {2205}                   \* timeMS: 5 ms
StageSelectors == {kAttack, kDecay, kSustain, kRelease}
SampleRates == {4}                     \* 400 Hz
MaxCalls == 2

(* ADSREnvelope(name, resetFunc, sustainEnabled): the member initialisers and *)
(* the constructor body, SetSampleRate(T(44100.)).                             *)
Init ==
  /\ mSampleRate = DefaultSampleRate
  /\ mEarlyReleaseIncr = CalcIncrFromTimeLinear(EARLY_RELEASE_TIME, DefaultSampleRate)
  /\ mRetriggerReleaseIncr = CalcIncrFromTimeLinear(RETRIGGER_RELEASE_TIME, DefaultSampleRate)
  /\ mAttackIncr = T_0
  /\ mDecayIncr = T_0
  /\ mReleaseIncr = T_0
  /\ mEnvValue = T_0
  /\ mStage = kIdle
  /\ mLevel = T_0
  /\ mReleaseLevel = T_0
  /\ mNewStartLevel = T_0
  /\ mPrevResult = T_0
  /\ mPrevOutput = T_0
  /\ mScalar = T_1
  /\ mReleased = TRUE
  /\ mSustainEnabled \in BOOLEAN
  /\ mResetFunc \in BOOLEAN          \* TRUE: a function, FALSE: nullptr
  /\ mEndReleaseFunc = FALSE
  /\ resetCalls = 0
  /\ endReleaseCalls = 0
  /\ calls = 0
  /\ ret = <<>>

\* the SetStageTime whose default case sets the release time
SetStageTimeDefaultRelease(stage, timeMS) ==
  /\ mAttackIncr' = IF stage = kAttack
       THEN CalcIncrFromTimeLinear(Clip(timeMS, MIN_ENV_TIME_MS, MAX_ENV_TIME_MS), mSampleRate)
       ELSE mAttackIncr
  /\ mDecayIncr' = IF stage = kDecay
       THEN CalcIncrFromTimeExp(Clip(timeMS, MIN_ENV_TIME_MS, MAX_ENV_TIME_MS), mSampleRate)
       ELSE mDecayIncr
  /\ mReleaseIncr' = IF stage \notin {kAttack, kDecay}
       THEN CalcIncrFromTimeExp(Clip(timeMS, MIN_ENV_TIME_MS, MAX_ENV_TIME_MS), mSampleRate)
       ELSE mReleaseIncr
  /\ UNCHANGED <<mEarlyReleaseIncr, mRetriggerReleaseIncr, mSampleRate, mEnvValue,
                 mStage, mLevel, mReleaseLevel, mNewStartLevel, mPrevResult,
                 mPrevOutput, mScalar, mReleased, mSustainEnabled, funcs>>
  /\ calls' = calls
  /\ ret' = <<>>
  /\ resetCalls' = 0 /\ endReleaseCalls' = 0

SetStageTime(stage, timeMS) ==
  /\ mAttackIncr' = IF stage = kAttack
       THEN CalcIncrFromTimeLinear(Clip(timeMS, MIN_ENV_TIME_MS, MAX_ENV_TIME_MS), mSampleRate)
       ELSE mAttackIncr
  /\ mDecayIncr' = IF stage = kDecay
       THEN CalcIncrFromTimeExp(Clip(timeMS, MIN_ENV_TIME_MS, MAX_ENV_TIME_MS), mSampleRate)
       ELSE mDecayIncr
  /\ mReleaseIncr' = IF stage = kRelease
       THEN CalcIncrFromTimeExp(Clip(timeMS, MIN_ENV_TIME_MS, MAX_ENV_TIME_MS), mSampleRate)
       ELSE mReleaseIncr
  /\ UNCHANGED <<mEarlyReleaseIncr, mRetriggerReleaseIncr, mSampleRate, mEnvValue,
                 mStage, mLevel, mReleaseLevel, mNewStartLevel, mPrevResult,
                 mPrevOutput, mScalar, mReleased, mSustainEnabled, funcs>>
  /\ calls' = calls
  /\ ret' = <<>>
  /\ resetCalls' = 0 /\ endReleaseCalls' = 0

GetBusy == mStage # kIdle
GetReleased == mReleased
GetPrevOutput == mPrevOutput

Start(level, timeScalar) ==
  /\ mStage' = kAttack
  /\ mEnvValue' = 0
  /\ mLevel' = level
  /\ mScalar' = Div(T_1, timeScalar)
  /\ mReleased' = FALSE
  /\ calls' = calls + 1
  /\ ret' = <<>>
  /\ resetCalls' = 0 /\ endReleaseCalls' = 0
  /\ UNCHANGED <<coeffs, mReleaseLevel, mNewStartLevel, mPrevResult, mPrevOutput,
                 mSustainEnabled, funcs>>

\* the body of Release(): what it assigns
ReleaseBody ==
  [stage |-> kRelease, releaseLevel |-> mPrevResult, env |-> T_1, released |-> TRUE]

Release ==
  /\ mStage' = ReleaseBody.stage
  /\ mReleaseLevel' = ReleaseBody.releaseLevel
  /\ mEnvValue' = ReleaseBody.env
  /\ mReleased' = ReleaseBody.released
  /\ calls' = calls + 1
  /\ ret' = <<>>
  /\ resetCalls' = 0 /\ endReleaseCalls' = 0
  /\ UNCHANGED <<coeffs, mLevel, mNewStartLevel, mPrevResult, mPrevOutput, mScalar,
                 mSustainEnabled, funcs>>

\* the Retrigger that leaves mReleased as it was
RetriggerKeepsReleased(newStartLevel, timeScalar) ==
  /\ mEnvValue' = T_1
  /\ mNewStartLevel' = newStartLevel
  /\ mScalar' = Div(T_1, timeScalar)
  /\ mReleaseLevel' = mPrevResult
  /\ mStage' = kReleasedToRetrigger
  /\ mReleased' = mReleased
  /\ calls' = calls + 1
  /\ ret' = <<>>
  /\ resetCalls' = 0 /\ endReleaseCalls' = 0
  /\ UNCHANGED <<coeffs, mLevel, mPrevResult, mPrevOutput, mSustainEnabled, funcs>>

Retrigger(newStartLevel, timeScalar) ==
  /\ mEnvValue' = T_1
  /\ mNewStartLevel' = newStartLevel
  /\ mScalar' = Div(T_1, timeScalar)
  /\ mReleaseLevel' = mPrevResult
  /\ mStage' = kReleasedToRetrigger
  /\ mReleased' = FALSE
  /\ calls' = calls + 1
  /\ ret' = <<>>
  /\ resetCalls' = 0 /\ endReleaseCalls' = 0
  /\ UNCHANGED <<coeffs, mLevel, mPrevResult, mPrevOutput, mSustainEnabled, funcs>>

\* Kill whose hard branch forgets mReleaseLevel = T_0
KillKeepsReleaseLevel(hard) ==
  /\ IF hard
       THEN IF mStage # kIdle
              THEN /\ mReleaseLevel' = mReleaseLevel
                   /\ mStage' = kIdle
                   /\ mEnvValue' = T_0
              ELSE UNCHANGED <<mReleaseLevel, mStage, mEnvValue>>
       ELSE IF mStage # kIdle
              THEN /\ mReleaseLevel' = mPrevResult
                   /\ mStage' = kReleasedToEndEarly
                   /\ mEnvValue' = T_1
              ELSE UNCHANGED <<mReleaseLevel, mStage, mEnvValue>>
  /\ calls' = IF ~hard /\ mStage # kIdle THEN calls + 1 ELSE calls
  /\ ret' = <<>>
  /\ resetCalls' = 0 /\ endReleaseCalls' = 0
  /\ UNCHANGED <<coeffs, mLevel, mNewStartLevel, mPrevResult, mPrevOutput, mScalar,
                 mReleased, mSustainEnabled, funcs>>

\* Kill whose hard branch forgets mEnvValue = T_0
KillKeepsEnvValue(hard) ==
  /\ IF hard
       THEN IF mStage # kIdle
              THEN /\ mReleaseLevel' = T_0
                   /\ mStage' = kIdle
                   /\ mEnvValue' = mEnvValue
              ELSE UNCHANGED <<mReleaseLevel, mStage, mEnvValue>>
       ELSE IF mStage # kIdle
              THEN /\ mReleaseLevel' = mPrevResult
                   /\ mStage' = kReleasedToEndEarly
                   /\ mEnvValue' = T_1
              ELSE UNCHANGED <<mReleaseLevel, mStage, mEnvValue>>
  /\ calls' = IF ~hard /\ mStage # kIdle THEN calls + 1 ELSE calls
  /\ ret' = <<>>
  /\ resetCalls' = 0 /\ endReleaseCalls' = 0
  /\ UNCHANGED <<coeffs, mLevel, mNewStartLevel, mPrevResult, mPrevOutput, mScalar,
                 mReleased, mSustainEnabled, funcs>>

\* the kill that invokes mEndReleaseFunc itself when it silences a voice
KillInvokesEndRelease(hard) ==
  /\ IF hard
       THEN IF mStage # kIdle
              THEN /\ mReleaseLevel' = T_0
                   /\ mStage' = kIdle
                   /\ mEnvValue' = T_0
              ELSE UNCHANGED <<mReleaseLevel, mStage, mEnvValue>>
       ELSE IF mStage # kIdle
              THEN /\ mReleaseLevel' = mPrevResult
                   /\ mStage' = kReleasedToEndEarly
                   /\ mEnvValue' = T_1
              ELSE UNCHANGED <<mReleaseLevel, mStage, mEnvValue>>
  /\ calls' = IF ~hard /\ mStage # kIdle THEN calls + 1 ELSE calls
  /\ ret' = <<>>
  /\ resetCalls' = 0
  /\ endReleaseCalls' = IF hard /\ mStage # kIdle /\ mEndReleaseFunc THEN 1 ELSE 0
  /\ UNCHANGED <<coeffs, mLevel, mNewStartLevel, mPrevResult, mPrevOutput, mScalar,
                 mReleased, mSustainEnabled, funcs>>

Kill(hard) ==
  /\ IF hard
       THEN IF mStage # kIdle
              THEN /\ mReleaseLevel' = T_0
                   /\ mStage' = kIdle
                   /\ mEnvValue' = T_0
              ELSE UNCHANGED <<mReleaseLevel, mStage, mEnvValue>>
       ELSE IF mStage # kIdle
              THEN /\ mReleaseLevel' = mPrevResult
                   /\ mStage' = kReleasedToEndEarly
                   /\ mEnvValue' = T_1
              ELSE UNCHANGED <<mReleaseLevel, mStage, mEnvValue>>
  /\ calls' = IF ~hard /\ mStage # kIdle THEN calls + 1 ELSE calls
  /\ ret' = <<>>
  /\ resetCalls' = 0 /\ endReleaseCalls' = 0
  /\ UNCHANGED <<coeffs, mLevel, mNewStartLevel, mPrevResult, mPrevOutput, mScalar,
                 mReleased, mSustainEnabled, funcs>>

\* the SetSampleRate that also rescales the attack increment
SetSampleRateRescales(sr) ==
  /\ mSampleRate' = sr
  /\ mEarlyReleaseIncr' = CalcIncrFromTimeLinear(EARLY_RELEASE_TIME, sr)
  /\ mRetriggerReleaseIncr' = CalcIncrFromTimeLinear(RETRIGGER_RELEASE_TIME, sr)
  /\ mAttackIncr' = (mAttackIncr * mSampleRate) \div sr
  /\ UNCHANGED <<mDecayIncr, mReleaseIncr, mEnvValue, mStage, mLevel,
                 mReleaseLevel, mNewStartLevel, mPrevResult, mPrevOutput, mScalar,
                 mReleased, mSustainEnabled, funcs>>
  /\ calls' = calls
  /\ ret' = <<>>
  /\ resetCalls' = 0 /\ endReleaseCalls' = 0

SetSampleRate(sr) ==
  /\ mSampleRate' = sr
  /\ mEarlyReleaseIncr' = CalcIncrFromTimeLinear(EARLY_RELEASE_TIME, sr)
  /\ mRetriggerReleaseIncr' = CalcIncrFromTimeLinear(RETRIGGER_RELEASE_TIME, sr)
  /\ UNCHANGED <<mAttackIncr, mDecayIncr, mReleaseIncr, mEnvValue, mStage, mLevel,
                 mReleaseLevel, mNewStartLevel, mPrevResult, mPrevOutput, mScalar,
                 mReleased, mSustainEnabled, funcs>>
  /\ calls' = calls
  /\ ret' = <<>>
  /\ resetCalls' = 0 /\ endReleaseCalls' = 0

SetResetFunc(func) ==
  /\ mResetFunc' = func
  /\ UNCHANGED <<coeffs, mEnvValue, mStage, mLevel, mReleaseLevel, mNewStartLevel,
                 mPrevResult, mPrevOutput, mScalar, mReleased, mSustainEnabled,
                 mEndReleaseFunc>>
  /\ calls' = calls
  /\ ret' = <<>>
  /\ resetCalls' = 0 /\ endReleaseCalls' = 0

SetEndReleaseFunc(func) ==
  /\ mEndReleaseFunc' = func
  /\ UNCHANGED <<coeffs, mEnvValue, mStage, mLevel, mReleaseLevel, mNewStartLevel,
                 mPrevResult, mPrevOutput, mScalar, mReleased, mSustainEnabled,
                 mResetFunc>>
  /\ calls' = calls
  /\ ret' = <<>>
  /\ resetCalls' = 0 /\ endReleaseCalls' = 0

(* Process(sustainLevel), one switch case each: the fields as the case leaves *)
(* them, the case's result, and the callbacks it invokes.                     *)
Held(result) ==
  [stage |-> mStage, env |-> mEnvValue, level |-> mLevel,
   releaseLevel |-> mReleaseLevel, released |-> mReleased, result |-> result,
   reset |-> 0, endRelease |-> 0]

CaseIdle == Held(mEnvValue)

\* the attack case that skips Decay
CaseAttackToSustain ==
  LET env == mEnvValue + Mul(mAttackIncr, mScalar)
  IN IF env > ENV_VALUE_HIGH \/ mAttackIncr = 0
       THEN [Held(T_1) EXCEPT !.stage = kSustain, !.env = T_1]
       ELSE [Held(env) EXCEPT !.env = env]

\* the attack case without the test for an increment of 0
CaseAttackNoZeroTest ==
  LET env == mEnvValue + Mul(mAttackIncr, mScalar)
  IN IF env > ENV_VALUE_HIGH
       THEN [Held(T_1) EXCEPT !.stage = kDecay, !.env = T_1]
       ELSE [Held(env) EXCEPT !.env = env]

CaseAttack ==
  LET env == mEnvValue + Mul(mAttackIncr, mScalar)
  IN IF env > ENV_VALUE_HIGH \/ mAttackIncr = 0
       THEN [Held(T_1) EXCEPT !.stage = kDecay, !.env = T_1]
       ELSE [Held(env) EXCEPT !.env = env]

\* the decay case that enters Sustain without resetting mEnvValue
CaseDecayKeepsEnvValue(sustainLevel) ==
  LET env == mEnvValue - Mul(Mul(mDecayIncr, mEnvValue), mScalar)
      result == Mul(env, T_1 - sustainLevel) + sustainLevel
  IN IF env < ENV_VALUE_LOW
       THEN IF mSustainEnabled
              THEN [Held(sustainLevel) EXCEPT !.stage = kSustain, !.env = env]
              ELSE [Held(result) EXCEPT !.stage = ReleaseBody.stage,
                                        !.releaseLevel = ReleaseBody.releaseLevel,
                                        !.env = ReleaseBody.env,
                                        !.released = ReleaseBody.released]
       ELSE [Held(result) EXCEPT !.env = env]

\* the decay case that ignores mSustainEnabled
CaseDecayAlwaysSustains(sustainLevel) ==
  LET env == mEnvValue - Mul(Mul(mDecayIncr, mEnvValue), mScalar)
      result == Mul(env, T_1 - sustainLevel) + sustainLevel
  IN IF env < ENV_VALUE_LOW
       THEN [Held(sustainLevel) EXCEPT !.stage = kSustain, !.env = T_1]
       ELSE [Held(result) EXCEPT !.env = env]

CaseDecay(sustainLevel) ==
  LET env == mEnvValue - Mul(Mul(mDecayIncr, mEnvValue), mScalar)
      result == Mul(env, T_1 - sustainLevel) + sustainLevel
  IN IF env < ENV_VALUE_LOW
       THEN IF mSustainEnabled
              THEN [Held(sustainLevel) EXCEPT !.stage = kSustain, !.env = T_1]
              ELSE [Held(result) EXCEPT !.stage = ReleaseBody.stage,
                                        !.releaseLevel = ReleaseBody.releaseLevel,
                                        !.env = ReleaseBody.env,
                                        !.released = ReleaseBody.released]
       ELSE [Held(result) EXCEPT !.env = env]

\* the sustain case that returns the held mEnvValue
CaseSustainHeld(sustainLevel) == Held(mEnvValue)

CaseSustain(sustainLevel) == Held(sustainLevel)

\* the release case whose result is not scaled by mReleaseLevel
CaseReleaseUnscaled ==
  LET env == mEnvValue - Mul(Mul(mReleaseIncr, mEnvValue), mScalar)
  IN IF env < ENV_VALUE_LOW \/ mReleaseIncr = 0
       THEN [Held(T_0) EXCEPT
               !.stage = kIdle, !.env = T_0,
               !.endRelease = IF mEndReleaseFunc THEN 1 ELSE 0]
       ELSE [Held(env) EXCEPT !.env = env]

\* the release case that never invokes mEndReleaseFunc
CaseReleaseNoCallback ==
  LET env == mEnvValue - Mul(Mul(mReleaseIncr, mEnvValue), mScalar)
  IN IF env < ENV_VALUE_LOW \/ mReleaseIncr = 0
       THEN [Held(Mul(T_0, mReleaseLevel)) EXCEPT !.stage = kIdle, !.env = T_0]
       ELSE [Held(Mul(env, mReleaseLevel)) EXCEPT !.env = env]

CaseRelease ==
  LET env == mEnvValue - Mul(Mul(mReleaseIncr, mEnvValue), mScalar)
  IN IF env < ENV_VALUE_LOW \/ mReleaseIncr = 0
       THEN [Held(Mul(T_0, mReleaseLevel)) EXCEPT
               !.stage = kIdle, !.env = T_0,
               !.endRelease = IF mEndReleaseFunc THEN 1 ELSE 0]
       ELSE [Held(Mul(env, mReleaseLevel)) EXCEPT !.env = env]

\* the retrigger case whose step is scaled by mScalar
CaseReleasedToRetriggerScaled ==
  LET env == mEnvValue - Mul(mRetriggerReleaseIncr, mScalar)
  IN IF env < ENV_VALUE_LOW
       THEN [Held(Mul(T_0, T_0)) EXCEPT
               !.stage = kAttack, !.level = mNewStartLevel, !.env = T_0,
               !.releaseLevel = T_0,
               !.reset = IF mResetFunc THEN 1 ELSE 0]
       ELSE [Held(Mul(env, mReleaseLevel)) EXCEPT !.env = env]

\* the retrigger case that forgets mLevel = mNewStartLevel
CaseReleasedToRetriggerKeepsLevel ==
  LET env == mEnvValue - mRetriggerReleaseIncr
  IN IF env < ENV_VALUE_LOW
       THEN [Held(Mul(T_0, T_0)) EXCEPT
               !.stage = kAttack, !.env = T_0, !.releaseLevel = T_0,
               !.reset = IF mResetFunc THEN 1 ELSE 0]
       ELSE [Held(Mul(env, mReleaseLevel)) EXCEPT !.env = env]

CaseReleasedToRetrigger ==
  LET env == mEnvValue - mRetriggerReleaseIncr
  IN IF env < ENV_VALUE_LOW
       THEN [Held(Mul(T_0, T_0)) EXCEPT
               !.stage = kAttack, !.level = mNewStartLevel, !.env = T_0,
               !.releaseLevel = T_0,
               !.reset = IF mResetFunc THEN 1 ELSE 0]
       ELSE [Held(Mul(env, mReleaseLevel)) EXCEPT !.env = env]

\* the early-release case that ramps with the retrigger increment
CaseReleasedToEndEarlyRetriggerIncr ==
  LET env == mEnvValue - mRetriggerReleaseIncr
  IN IF env < ENV_VALUE_LOW
       THEN [Held(Mul(T_0, T_0)) EXCEPT
               !.stage = kIdle, !.level = T_0, !.env = T_0, !.releaseLevel = T_0,
               !.endRelease = IF mEndReleaseFunc THEN 1 ELSE 0]
       ELSE [Held(Mul(env, mReleaseLevel)) EXCEPT !.env = env]

CaseReleasedToEndEarly ==
  LET env == mEnvValue - mEarlyReleaseIncr
  IN IF env < ENV_VALUE_LOW
       THEN [Held(Mul(T_0, T_0)) EXCEPT
               !.stage = kIdle, !.level = T_0, !.env = T_0, !.releaseLevel = T_0,
               !.endRelease = IF mEndReleaseFunc THEN 1 ELSE 0]
       ELSE [Held(Mul(env, mReleaseLevel)) EXCEPT !.env = env]

Switch(sustainLevel) ==
  CASE mStage = kIdle -> CaseIdle
    [] mStage = kAttack -> CaseAttack
    [] mStage = kDecay -> CaseDecay(sustainLevel)
    [] mStage = kSustain -> CaseSustain(sustainLevel)
    [] mStage = kRelease -> CaseRelease
    [] mStage = kReleasedToRetrigger -> CaseReleasedToRetrigger
    [] mStage = kReleasedToEndEarly -> CaseReleasedToEndEarly
    [] OTHER -> Held(mEnvValue)

\* the Process that returns the raw result, before the scaling by mLevel
ProcessReturnsResult(sustainLevel) ==
  \E s \in {Switch(sustainLevel)} :
     /\ mStage' = s.stage
     /\ mEnvValue' = s.env
     /\ mLevel' = s.level
     /\ mReleaseLevel' = s.releaseLevel
     /\ mReleased' = s.released
     /\ resetCalls' = s.reset
     /\ endReleaseCalls' = s.endRelease
     /\ mPrevResult' = s.result
     /\ mPrevOutput' = Mul(s.result, s.level)
     /\ ret' = <<mPrevResult'>>
     /\ UNCHANGED <<coeffs, mNewStartLevel, mScalar, mSustainEnabled, funcs, calls>>

Process(sustainLevel) ==
  \E s \in {Switch(sustainLevel)} :
     /\ mStage' = s.stage
     /\ mEnvValue' = s.env
     /\ mLevel' = s.level
     /\ mReleaseLevel' = s.releaseLevel
     /\ mReleased' = s.released
     /\ resetCalls' = s.reset
     /\ endReleaseCalls' = s.endRelease
     /\ mPrevResult' = s.result
     /\ mPrevOutput' = Mul(s.result, s.level)
     /\ ret' = <<mPrevOutput'>>
     /\ UNCHANGED <<coeffs, mNewStartLevel, mScalar, mSustainEnabled, funcs, calls>>

----------------------------------------------------------------------------
(* The caller.  The host gives the envelope its sample rate before it sets a *)
(* stage time or plays a note (HostRate); then any interleaving of the       *)
(* configuration calls, Process, hard kills and at most MaxCalls calls that  *)
(* start a stage (Start, Release, Retrigger, soft Kill).                     *)
HostRate == mSampleRate \in SampleRates
DoStart ==
  /\ HostRate /\ calls < MaxCalls
  /\ \E l \in Levels, ts \in TimeScalars : Start(l, ts)
DoRelease ==
  /\ HostRate /\ calls < MaxCalls
  /\ Release
DoRetrigger ==
  /\ HostRate /\ calls < MaxCalls
  /\ \E l \in Levels, ts \in TimeScalars : Retrigger(l, ts)
DoKill ==
  /\ HostRate
  /\ \E hard \in BOOLEAN : (hard \/ calls < MaxCalls) /\ Kill(hard)
DoSetStageTime ==
  /\ HostRate
  /\ \E st \in StageSelectors, t \in StageTimes : SetStageTime(st, t)
DoSetSampleRate == \E sr \in SampleRates : SetSampleRate(sr)
DoSetResetFunc ==
  /\ \E f \in BOOLEAN : SetResetFunc(f)
DoSetEndReleaseFunc ==
  /\ \E f \in BOOLEAN : SetEndReleaseFunc(f)
DoProcess == \E sl \in SustainLevels : Process(sl)

Next ==
  \/ DoStart
  \/ DoRelease
  \/ DoRetrigger
  \/ DoKill
  \/ DoSetStageTime
  \/ DoSetSampleRate
  \/ DoSetResetFunc
  \/ DoSetEndReleaseFunc
  \/ DoProcess

Spec == Init /\ [][Next]_vars

(* The caller of the ramp scenarios: it configures the envelope before the  *)
(* first note, and once a click-avoidance ramp runs (ReleasedToRetrigger,   *)
(* ReleasedToEndEarly) it only calls Process, once per sample, until the    *)
(* ramp is over.                                                            *)
InRamp == mStage \in {kReleasedToRetrigger, kReleasedToEndEarly}
Setup == calls = 0 /\ mStage = kIdle
RampNext ==
  \/ ~InRamp /\ DoStart
  \/ ~InRamp /\ DoRelease
  \/ ~InRamp /\ DoRetrigger
  \/ ~InRamp /\ DoKill
  \/ Setup /\ DoSetStageTime
  \/ Setup /\ DoSetSampleRate
  \/ Setup /\ DoSetResetFunc
  \/ Setup /\ DoSetEndReleaseFunc
  \/ DoProcess

RampSpec == Init /\ [][RampNext]_vars /\ WF_vars(DoProcess)

(* The caller of the attack scenario: it sets a sample rate and an attack  *)
(* time, starts one note with timeScalar 1 and then calls Process once per *)
(* sample.                                                                 *)
AttackRates == {4, 441}                \* 400 Hz, 44100 Hz
AttackTimes == {0, MIN_ENV_TIME_MS, 2205, 3675, 4410}  \* 0, 1/44100 s, 5, 8.33, 10 ms
AttackNext ==
  \/ Setup /\ \E sr \in AttackRates : SetSampleRate(sr)
  \/ Setup /\ \E t \in AttackTimes : SetStageTime(kAttack, t)
  \/ Setup /\ \E l \in Levels : Start(l, T_1)
  \/ DoProcess

AttackSpec == Init /\ [][AttackNext]_vars

(* The caller of the stage-selector scenario: it configures the envelope,  *)
(* starts one note, and while the note plays calls SetStageTime with stage *)
(* selectors that name no timed stage.                                     *)
TimedStages == {kAttack, kDecay, kRelease}
IgnoredSelectors == (EStage \cup {-4, 4}) \ TimedStages
SelectorNext ==
  \/ Setup /\ DoSetSampleRate
  \/ Setup /\ HostRate /\ \E st \in TimedStages, t \in StageTimes : SetStageTime(st, t)
  \/ Setup /\ DoStart
  \/ ~Setup /\ \E st \in IgnoredSelectors, t \in StageTimes : SetStageTime(st, t)
  \/ DoProcess

SelectorSpec == Init /\ [][SelectorNext]_vars

(* The caller of the sample-rate scenario: it configures the envelope,     *)
(* starts one note, and while the note plays the sample rate changes.      *)
NewRates == {4, 8}                     \* 400 Hz, 800 Hz
RateNext ==
  \/ Setup /\ DoSetSampleRate
  \/ Setup /\ HostRate /\ \E st \in TimedStages, t \in StageTimes : SetStageTime(st, t)
  \/ Setup /\ DoStart
  \/ ~Setup /\ \E sr \in NewRates : SetSampleRate(sr)
  \/ DoProcess

RateSpec == Init /\ [][RateNext]_vars

----------------------------------------------------------------------------
(* What a step is: a Process call is the only one that returns a sample. *)
IsProcess == ret' # <<>>
NoCallback == resetCalls = 0 /\ endReleaseCalls = 0

(* C1: Idle is a fixed point of Process.  In every reachable state with    *)
(* mStage = kIdle the held mEnvValue is 0, and every Process call made in  *)
(* Idle, with any sustainLevel, returns 0, leaves the stage Idle and       *)
(* invokes no callback.                                                    *)
C1_IdleFixedPoint ==
  /\ [](mStage = kIdle => mEnvValue = T_0)
  /\ [][(mStage = kIdle /\ IsProcess) =>
          (ret' = <<T_0>> /\ mStage' = kIdle /\ NoCallback')]_vars
\* a hard-killed voice (Start leaves mLevel # 0 and mReleased false) on which
\* Process has then run in Idle
C1_Witness ==
  /\ mStage = kIdle /\ ret = <<T_0>> /\ mLevel # T_0 /\ ~mReleased /\ calls > 0

(* C2: the retrigger scenario.  Retrigger(L, ...) puts the stage in        *)
(* ReleasedToRetrigger with mNewStartLevel = L; with only Process calls    *)
(* afterwards the stage stays ReleasedToRetrigger until it becomes Attack, *)
(* which it eventually does; the Process call where Attack begins is the   *)
(* one call of the scenario that invokes the reset callback (once, when    *)
(* one is set), and it leaves mLevel = L, mEnvValue = 0, mReleaseLevel = 0 *)
(* and returns 0.                                                          *)
C2_Retrigger ==
  /\ [][\A l \in Levels, ts \in TimeScalars :
          Retrigger(l, ts) => (mStage' = kReleasedToRetrigger /\ mNewStartLevel' = l)]_vars
  /\ [][(mStage = kReleasedToRetrigger /\ IsProcess) =>
          \/ mStage' = kReleasedToRetrigger /\ NoCallback'
          \/ /\ mStage' = kAttack
             /\ resetCalls' = (IF mResetFunc THEN 1 ELSE 0)
             /\ endReleaseCalls' = 0
             /\ mLevel' = mNewStartLevel
             /\ mEnvValue' = T_0
             /\ mReleaseLevel' = T_0
             /\ ret' = <<T_0>>]_vars
  /\ [][resetCalls' # 0 =>
          (mStage = kReleasedToRetrigger /\ mStage' = kAttack /\ IsProcess)]_vars
  /\ (mStage = kReleasedToRetrigger) ~> (mStage = kAttack)
\* Attack has just begun at the end of the retrigger ramp of a started voice:
\* the reset callback ran and the level is the one Retrigger was given
C2_Witness ==
  /\ mStage = kAttack /\ resetCalls = 1 /\ ret = <<T_0>> /\ mEnvValue = T_0
  /\ mLevel = mNewStartLevel /\ mLevel = 21168 /\ calls = 2 /\ mDecayIncr # T_0

(* C3: hard kill.  From every non-Idle stage Kill(true) leaves, within the *)
(* call, mStage = kIdle, mEnvValue = 0 and mReleaseLevel = 0 and invokes   *)
(* neither callback; the next Process call returns 0.                      *)
C3_HardKill ==
  /\ [][(mStage # kIdle /\ Kill(TRUE)) =>
          (mStage' = kIdle /\ mEnvValue' = T_0 /\ mReleaseLevel' = T_0 /\ NoCallback')]_vars
  /\ [][(mStage = kIdle /\ mEnvValue = T_0 /\ mReleaseLevel = T_0 /\ ret = <<>>
          /\ IsProcess) => ret' = <<T_0>>]_vars
\* a voice killed hard while it sounded (its last output was not 0; a ramp
\* that ends in Idle leaves mPrevOutput = 0), before the next Process call
C3_Witness ==
  /\ mStage = kIdle /\ ret = <<>> /\ mPrevOutput # T_0 /\ mEnvValue = T_0
  /\ mReleaseLevel = T_0 /\ calls = MaxCalls

(* C4: soft kill.  Kill(false) in Sustain leaves mStage =                  *)
(* kReleasedToEndEarly, mReleaseLevel = mPrevResult, mEnvValue = 1.  With  *)
(* only Process calls afterwards the stage stays ReleasedToEndEarly for    *)
(* EarlySamples - 1 calls and becomes Idle on call number EarlySamples =   *)
(* ceil(0.020 * sampleRate); that call invokes the end-of-release callback *)
(* once (when one is set), no other call of the ramp invokes a callback,   *)
(* and no Process call in Idle invokes it again.                           *)
EarlySamples == (EARLY_RELEASE_TIME * mSampleRate + MsPerSec - 1) \div MsPerSec
C4_SoftKill ==
  /\ [][(mStage = kSustain /\ Kill(FALSE)) =>
          (mStage' = kReleasedToEndEarly /\ mReleaseLevel' = mPrevResult
           /\ mEnvValue' = T_1)]_vars
  /\ [](mStage = kReleasedToEndEarly =>
          \E k \in 0 .. EarlySamples - 1 : mEnvValue = T_1 - k * mEarlyReleaseIncr)
  /\ [][(mStage = kReleasedToEndEarly /\ IsProcess) =>
          IF mEnvValue = T_1 - (EarlySamples - 1) * mEarlyReleaseIncr
            THEN /\ mStage' = kIdle
                 /\ endReleaseCalls' = (IF mEndReleaseFunc THEN 1 ELSE 0)
                 /\ resetCalls' = 0
            ELSE /\ mStage' = kReleasedToEndEarly
                 /\ mEnvValue' = mEnvValue - mEarlyReleaseIncr
                 /\ NoCallback']_vars
  /\ [][(mStage = kIdle /\ IsProcess) => endReleaseCalls' = 0]_vars
  /\ (mStage = kReleasedToEndEarly) ~> (mStage = kIdle)
\* a voice soft-killed in Sustain (with an instant attack and no release the
\* raw output 0.5 is the sustain level's alone) whose ramp has run for
\* EarlySamples - 1 Process calls and is one call from Idle
C4_Witness ==
  /\ mStage = kReleasedToEndEarly /\ ret # <<>> /\ mSustainEnabled
  /\ mAttackIncr = T_0 /\ mDecayIncr # T_0 /\ mReleaseLevel = 13230
  /\ mEnvValue = T_1 - (EarlySamples - 1) * mEarlyReleaseIncr
  /\ mEndReleaseFunc /\ mLevel # T_0 /\ calls = 2

(* C5: AD-only mode.  With mSustainEnabled = false the stage is never      *)
(* kSustain, whatever is called; the Process call in Decay whose decayed   *)
(* mEnvValue is below the low threshold itself moves the stage to Release  *)
(* with mReleaseLevel = the previous raw output (mPrevResult before the    *)
(* call), mEnvValue = 1 and mReleased = true, without a Release() call.    *)
DecayedEnvValue == mEnvValue - Mul(Mul(mDecayIncr, mEnvValue), mScalar)
C5_ADOnly ==
  /\ [](~mSustainEnabled => mStage # kSustain)
  /\ [][(~mSustainEnabled /\ mStage = kDecay /\ IsProcess) =>
          IF DecayedEnvValue < ENV_VALUE_LOW
            THEN /\ mStage' = kRelease
                 /\ mReleaseLevel' = mPrevResult
                 /\ mEnvValue' = T_1
                 /\ mReleased'
                 /\ calls' = calls
            ELSE /\ mStage' = kDecay
                 /\ mEnvValue' = DecayedEnvValue]_vars
\* Process has just returned from the call that released an AD voice by
\* itself: only Start was ever called, and a Process call made in Release
\* with a release coefficient never leaves mEnvValue = 1 there
C5_Witness ==
  /\ ~mSustainEnabled /\ mStage = kRelease /\ mEnvValue = T_1 /\ mReleased
  /\ ret # <<>> /\ calls = 1 /\ mLevel # T_0

(* C6, as claimed: the end-of-release callback is invoked exactly once     *)
(* when a ramp of any of the three release kinds (Release,                 *)
(* ReleasedToEndEarly, ReleasedToRetrigger) completes.                     *)
RampStages == {kRelease, kReleasedToEndEarly, kReleasedToRetrigger}
RampCompletes == mStage \in RampStages /\ IsProcess /\ mStage' # mStage
C6_Claimed ==
  [][(RampCompletes /\ mEndReleaseFunc) => endReleaseCalls' = 1]_vars
(* C6, amended: the Process call that completes a Release ramp or an early *)
(* release (soft Kill) ramp ends in Idle and invokes the end-of-release    *)
(* callback exactly once (when one is set) and not the reset callback; the *)
(* call that completes a ReleasedToRetrigger ramp ends in Attack and       *)
(* invokes the reset callback once (when one is set) and the               *)
(* end-of-release callback not at all; no other call invokes either.       *)
C6_EndReleaseCallback ==
  /\ [][(RampCompletes /\ mStage \in {kRelease, kReleasedToEndEarly}) =>
          /\ mStage' = kIdle
          /\ endReleaseCalls' = (IF mEndReleaseFunc THEN 1 ELSE 0)
          /\ resetCalls' = 0]_vars
  /\ [][(RampCompletes /\ mStage = kReleasedToRetrigger) =>
          /\ mStage' = kAttack
          /\ endReleaseCalls' = 0
          /\ resetCalls' = (IF mResetFunc THEN 1 ELSE 0)]_vars
  /\ [][~RampCompletes => NoCallback']_vars
\* a retrigger ramp has just ended in Attack with both callbacks set: the
\* reset callback was invoked and the end-of-release callback was not
C6_Witness ==
  /\ mStage = kAttack /\ mEnvValue = T_0 /\ ret = <<T_0>> /\ ~mReleased
  /\ mResetFunc /\ mEndReleaseFunc /\ resetCalls = 1 /\ endReleaseCalls = 0
  /\ mLevel = mNewStartLevel /\ mLevel # T_0

(* C7, as claimed: a Decay stage whose coefficient is exactly 0 completes  *)
(* on its first Process call: the Process call made in Decay with          *)
(* mDecayIncr = 0 leaves Decay (to Sustain when mSustainEnabled, to        *)
(* Release otherwise).                                                     *)
C7_ZeroDecayCompletes ==
  [][(mStage = kDecay /\ mDecayIncr = T_0 /\ IsProcess) =>
       mStage' = (IF mSustainEnabled THEN kSustain ELSE kRelease)]_vars

(* C8: instant Attack and Release.  With mAttackIncr = 0 the first Process *)
(* call in Attack leaves mEnvValue = 1 and mStage = kDecay; with           *)
(* mReleaseIncr = 0 the first Process call in Release leaves mStage =      *)
(* kIdle and mEnvValue = 0, returns 0 and invokes the end-of-release       *)
(* callback once (when one is set).                                        *)
C8_InstantStages ==
  /\ [][(mStage = kAttack /\ mAttackIncr = T_0 /\ IsProcess) =>
          (mEnvValue' = T_1 /\ mStage' = kDecay /\ ret' = <<mLevel>>)]_vars
  /\ [][(mStage = kRelease /\ mReleaseIncr = T_0 /\ IsProcess) =>
          /\ mStage' = kIdle
          /\ mEnvValue' = T_0
          /\ ret' = <<T_0>>
          /\ endReleaseCalls' = (IF mEndReleaseFunc THEN 1 ELSE 0)
          /\ resetCalls' = 0]_vars
\* a voice whose instant attack put out 1.0 (with mAttackIncr = 0 nothing
\* else does), was released at that output, and whose instant release has
\* just ended in Idle with the callback invoked
C8_Witness ==
  /\ mStage = kIdle /\ mAttackIncr = T_0 /\ mReleaseIncr = T_0
  /\ mReleaseLevel = T_1 /\ mReleased /\ endReleaseCalls = 1 /\ ret = <<T_0>>
  /\ mLevel # T_0

\* GetPrevOutput() just before a call, and what the Process call right after
\* the call returns when the call leaves the stage in Release
OutputBefore == mPrevOutput
OutputAfter == Mul(CaseRelease.result, CaseRelease.level)'
ReleasedMidDecay == mStage = kDecay /\ Release

(* C9, as claimed: for every Release() issued in Decay, the output just    *)
(* before it and the value the first Process call after it returns differ  *)
(* by at most one decay step, mDecayIncr * mEnvValue * mScalar scaled by   *)
(* mLevel (one grid unit allowed per rounded product).                     *)
C9_Claimed ==
  [][ReleasedMidDecay =>
       Abs(OutputBefore - OutputAfter)
         <= Mul(Mul(Mul(mDecayIncr, mEnvValue), mScalar), mLevel) + 3]_vars
(* C9, amended: for every Release() issued in Decay the first Process call *)
(* after it returns a value between 0 and the output before the call; it   *)
(* is 0 when the release is instant (mReleaseIncr = 0) or one release step *)
(* takes the ramp below the low threshold, and otherwise lies one release  *)
(* step, mReleaseIncr * mScalar of the output before the call, below it    *)
(* (one grid unit allowed per rounded product).  The decay coefficient     *)
(* plays no part.                                                          *)
C9_ReleaseContinuity ==
  [][ReleasedMidDecay =>
       LET step == Mul(Mul(mReleaseIncr, mScalar), OutputBefore)
       IN /\ T_0 <= OutputAfter /\ OutputAfter <= OutputBefore
          /\ IF mReleaseIncr = T_0 \/ T_1 - Mul(mReleaseIncr, mScalar) < ENV_VALUE_LOW
               THEN OutputAfter = T_0
               ELSE Abs((OutputBefore - OutputAfter) - step) <= 3]_vars
\* Release() has just been called in Decay: with an instant attack and
\* sustain levels 0 and 0.5, a raw output strictly between 0.5 and 1 is one
\* only the Decay case produces
C9_Witness ==
  /\ mStage = kRelease /\ ret = <<>> /\ mEnvValue = T_1 /\ mReleased
  /\ mAttackIncr = T_0 /\ mReleaseLevel = mPrevResult
  /\ mReleaseLevel > 13230 /\ mReleaseLevel < T_1
  /\ mReleaseIncr # T_0 /\ mLevel # T_0 /\ calls = 2

(* C10, as claimed: in Sustain every Process(sustainLevel) returns         *)
(* sustainLevel * mLevel and leaves the stage Sustain, and the stage       *)
(* leaves Sustain only through a Release, Retrigger or Kill call.          *)
SustainProcessHolds ==
  \A sl \in SustainLevels :
     (mStage = kSustain /\ Process(sl)) =>
        (ret' = <<Mul(sl, mLevel)>> /\ mStage' = kSustain)
LeavesSustain == mStage = kSustain /\ mStage' # kSustain
C10_Claimed ==
  /\ [][SustainProcessHolds]_vars
  /\ [][LeavesSustain =>
          \/ Release
          \/ \E l \in Levels, t \in TimeScalars : Retrigger(l, t)
          \/ \E hard \in BOOLEAN : Kill(hard)]_vars
(* C10, amended: in Sustain every Process(sustainLevel) returns            *)
(* sustainLevel * mLevel and leaves the stage Sustain, and the stage       *)
(* leaves Sustain only through a Start, Release, Retrigger or Kill call:   *)
(* Start puts a sustaining envelope back in Attack.                        *)
C10_SustainHolds ==
  /\ [][SustainProcessHolds]_vars
  /\ [][LeavesSustain =>
          \/ \E l \in Levels, t \in TimeScalars : Start(l, t)
          \/ Release
          \/ \E l \in Levels, t \in TimeScalars : Retrigger(l, t)
          \/ \E hard \in BOOLEAN : Kill(hard)]_vars
\* Start has just been called in Sustain: with an instant attack and
\* sustain enabled, a raw output of 0.5 comes from a Process(0.5) call that
\* entered or held Sustain, and Start has put the stage back in Attack
C10_Witness ==
  /\ mStage = kAttack /\ ret = <<>> /\ mEnvValue = T_0 /\ ~mReleased
  /\ mPrevResult = 13230 /\ mAttackIncr = T_0 /\ mDecayIncr # T_0
  /\ mSustainEnabled /\ mLevel # T_0 /\ calls = 2

(* C11: callbacks are invoked only inside Process and at most once per     *)
(* ramp.  A call that is not Process (Start, Release, Retrigger, Kill,     *)
(* SetStageTime, SetSampleRate, the two setters) invokes neither callback; *)
(* one Process call invokes at most one callback, once; and a Process call *)
(* invokes one only when it takes a ramp (Release, ReleasedToRetrigger,    *)
(* ReleasedToEndEarly) across its threshold, so a ramp a trigger call      *)
(* interrupts (the stage changes or mEnvValue restarts at 1, in a call     *)
(* that is not Process) invokes nothing for that ramp.                     *)
CrossesThreshold ==
  /\ mStage \in {kRelease, kReleasedToRetrigger, kReleasedToEndEarly}
  /\ mStage' \in {kIdle, kAttack}
  /\ mEnvValue' = T_0
C11_CallbacksOnlyInProcess ==
  /\ [][~IsProcess => (resetCalls' = 0 /\ endReleaseCalls' = 0)]_vars
  /\ [][IsProcess => resetCalls' + endReleaseCalls' <= 1]_vars
  /\ [][(resetCalls' + endReleaseCalls' > 0) => (IsProcess /\ CrossesThreshold)]_vars
\* a Release ramp cut short by Kill(true): with no attack and no decay time
\* set, a raw output strictly between 0 and 0.5 is a sample of a Release
\* ramp under way (its last sample would be 0), and the kill that made the
\* voice Idle invoked nothing although mEndReleaseFunc is set
C11_Witness ==
  /\ mStage = kIdle /\ ret = <<>> /\ mReleased /\ mEndReleaseFunc
  /\ resetCalls = 0 /\ endReleaseCalls = 0
  /\ mAttackIncr = T_0 /\ mDecayIncr = T_0 /\ mReleaseIncr # T_0
  /\ mPrevResult > T_0 /\ mPrevResult < 13230 /\ mLevel # T_0 /\ mEnvValue = T_0

(* C12: every Process call records mPrevResult = the raw output of the     *)
(* stage's case and mPrevOutput = that output * mLevel, with the mLevel    *)
(* the call leaves, and returns mPrevOutput; every other call leaves       *)
(* mPrevOutput unchanged, and it is 0 after construction.  So              *)
(* GetPrevOutput() is always the value the most recent Process call        *)
(* returned, or 0 before any.                                              *)
C12_PrevOutput ==
  /\ GetPrevOutput = T_0
  /\ [][IsProcess =>
          /\ \E sl \in SustainLevels : mPrevResult' = Switch(sl).result
          /\ mPrevOutput' = Mul(mPrevResult', mLevel')
          /\ ret' = <<GetPrevOutput'>>]_vars
  /\ [][~IsProcess => GetPrevOutput' = GetPrevOutput]_vars
\* a voice started at level 0.8 put out 0.5 * 0.8 in Sustain, and a second
\* Start at level 1.0 has left GetPrevOutput() at that value
C12_Witness ==
  /\ ret = <<>> /\ mStage = kAttack /\ mLevel = T_1 /\ mPrevResult = 13230
  /\ GetPrevOutput = Mul(13230, 21168) /\ mAttackIncr = T_0 /\ mSustainEnabled
  /\ calls = 2

\* ceil(ms * sampleRate / 1000), and the Process calls an Attack begun by
\* Start(level, 1) has had: each adds mAttackIncr * 1 to an mEnvValue of 0
AttackSamples(timeMS) == (timeMS * mSampleRate + MsPerSec - 1) \div MsPerSec
AttackCalls == mEnvValue \div mAttackIncr
InRange(timeMS) == MIN_ENV_TIME_MS <= timeMS /\ timeMS <= MAX_ENV_TIME_MS

(* C13: attack duration.  After SetStageTime(kAttack, ms), ms inside       *)
(* [MIN_ENV_TIME_MS, MAX_ENV_TIME_MS], and Start(level, 1), an envelope    *)
(* still in Attack has had fewer than ceil(ms * sampleRate / 1000) Process *)
(* calls, so that many calls take it out of Attack; the call that does     *)
(* leaves mStage = kDecay and mEnvValue = 1.                               *)
C13_AttackDuration ==
  /\ [](\A t \in AttackTimes :
          (/\ InRange(t) /\ mStage = kAttack /\ mScalar = T_1
           /\ mAttackIncr = CalcIncrFromTimeLinear(t, mSampleRate))
             => AttackCalls < AttackSamples(t))
  /\ [][(mStage = kAttack /\ IsProcess /\ mStage' # kAttack) =>
          (mStage' = kDecay /\ mEnvValue' = T_1)]_vars
\* an attack of 8.33 ms at 44100 Hz (367.5 samples, increment 1/367.5)
\* after 367 Process calls: still in Attack, one call from Decay
C13_Witness ==
  /\ mStage = kAttack /\ mSampleRate = 441 /\ mScalar = T_1
  /\ mAttackIncr = CalcIncrFromTimeLinear(3675, mSampleRate)
  /\ AttackCalls = AttackSamples(3675) - 1 /\ AttackCalls = 367
  /\ ret = <<Mul(mEnvValue, mLevel)>> /\ mLevel = 21168

(* C14: the stage transition relation.  mStage is always one of the seven  *)
(* EStage values.  A Process call changes it only along Attack -> Decay,   *)
(* Decay -> Sustain (only with mSustainEnabled), Decay -> Release (only    *)
(* without), Release -> Idle, ReleasedToRetrigger -> Attack and            *)
(* ReleasedToEndEarly -> Idle.  Any other change of stage is a Start (to   *)
(* Attack), a Release (to Release), a Retrigger (to ReleasedToRetrigger)   *)
(* or a Kill (to Idle or ReleasedToEndEarly).                              *)
ProcessEdges ==
  {<<kAttack, kDecay>>, <<kRelease, kIdle>>,
   <<kReleasedToRetrigger, kAttack>>, <<kReleasedToEndEarly, kIdle>>}
    \cup (IF mSustainEnabled THEN {<<kDecay, kSustain>>} ELSE {<<kDecay, kRelease>>})
C14_StageTransitions ==
  /\ [](mStage \in EStage)
  /\ [][(IsProcess /\ mStage' # mStage) => <<mStage, mStage'>> \in ProcessEdges]_vars
  /\ [][(~IsProcess /\ mStage' # mStage) =>
          \/ mStage' = kAttack /\ \E l \in Levels, t \in TimeScalars : Start(l, t)
          \/ mStage' = kRelease /\ Release
          \/ mStage' = kReleasedToRetrigger
               /\ \E l \in Levels, t \in TimeScalars : Retrigger(l, t)
          \/ mStage' = kIdle /\ Kill(TRUE)
          \/ mStage' = kReleasedToEndEarly /\ Kill(FALSE)]_vars
\* Process has just taken the edge Attack -> Decay: with a decay coefficient
\* a Process call made in Decay leaves mEnvValue below 1
C14_Witness ==
  /\ mStage = kDecay /\ mEnvValue = T_1 /\ ret = <<mLevel>> /\ mLevel # T_0
  /\ mAttackIncr # T_0 /\ mDecayIncr # T_0 /\ ~mReleased

\* mEnvValue as the stage's case of Process steps it, before any reset
SteppedEnvValue ==
  CASE mStage = kAttack -> mEnvValue + Mul(mAttackIncr, mScalar)
    [] mStage = kDecay -> mEnvValue - Mul(Mul(mDecayIncr, mEnvValue), mScalar)
    [] mStage = kRelease -> mEnvValue - Mul(Mul(mReleaseIncr, mEnvValue), mScalar)
    [] mStage = kReleasedToRetrigger -> mEnvValue - mRetriggerReleaseIncr
    [] mStage = kReleasedToEndEarly -> mEnvValue - mEarlyReleaseIncr
    [] OTHER -> mEnvValue

(* C15: the range of mEnvValue.  After every call 0 <= mEnvValue <= 1.  A  *)
(* Process call whose step takes mEnvValue above the high threshold (in    *)
(* Attack) or below the low threshold, a negative value included (in       *)
(* Decay, Release and the two fast ramps), resets it within the call: to 1 *)
(* at the end of Attack and of Decay, to 0 at the end of the three ramps.  *)
C15_EnvValueRange ==
  /\ [](T_0 <= mEnvValue /\ mEnvValue <= T_1)
  /\ [][(IsProcess /\ mStage = kAttack /\ SteppedEnvValue > ENV_VALUE_HIGH) =>
          mEnvValue' = T_1]_vars
  /\ [][(IsProcess /\ mStage = kDecay /\ SteppedEnvValue < ENV_VALUE_LOW) =>
          mEnvValue' = T_1]_vars
  /\ [][(/\ IsProcess /\ SteppedEnvValue < ENV_VALUE_LOW
         /\ mStage \in {kRelease, kReleasedToRetrigger, kReleasedToEndEarly}) =>
          mEnvValue' = T_0]_vars
  /\ [][(IsProcess /\ mEnvValue' \notin {T_0, T_1, mEnvValue}) =>
          mEnvValue' = SteppedEnvValue]_vars
\* a Release ramp with timeScalar 0.5 whose coefficient, doubled, exceeds 1:
\* its one step took mEnvValue below 0 and the same call left it at 0
C15_Witness ==
  /\ mStage = kIdle /\ mEnvValue = T_0 /\ ret = <<T_0>> /\ mReleased
  /\ endReleaseCalls = 1 /\ mLevel # T_0 /\ mScalar = 2 * T_1
  /\ mReleaseIncr # T_0 /\ Mul(mReleaseIncr, mScalar) > T_1

\* ceil(0.003 * sampleRate), and the Process calls a fast ramp has had when
\* each subtracts incr from an mEnvValue of 1
RetriggerSamples ==
  (RETRIGGER_RELEASE_TIME * mSampleRate + MsPerSec - 1) \div MsPerSec
RampCalls(incr) == (T_1 - mEnvValue) \div incr
OnRamp(incr, samples) ==
  /\ (T_1 - mEnvValue) % incr = 0
  /\ RampCalls(incr) < samples
RampEnds(incr, samples) == RampCalls(incr) = samples - 1

(* C16: the two click-avoidance ramps ignore the time scalar.  Whatever    *)
(* mScalar is, mEnvValue after k Process calls of a ReleasedToRetrigger    *)
(* ramp is 1 - k * mRetriggerReleaseIncr and Attack starts on call         *)
(* ceil(0.003 * sampleRate); after k calls of a ReleasedToEndEarly ramp it *)
(* is 1 - k * mEarlyReleaseIncr and Idle is reached on call                *)
(* ceil(0.020 * sampleRate): two envelopes that differ only in mScalar run *)
(* the same ramp.  The steps of Attack, Decay and Release are the          *)
(* coefficient's step multiplied by mScalar.                               *)
C16_RampsIgnoreScalar ==
  /\ [](mStage = kReleasedToRetrigger =>
          OnRamp(mRetriggerReleaseIncr, RetriggerSamples))
  /\ [](mStage = kReleasedToEndEarly => OnRamp(mEarlyReleaseIncr, EarlySamples))
  /\ [][(IsProcess /\ mStage = kReleasedToRetrigger) =>
          IF RampEnds(mRetriggerReleaseIncr, RetriggerSamples)
            THEN mStage' = kAttack /\ mEnvValue' = T_0
            ELSE mStage' = mStage /\ mEnvValue' = mEnvValue - mRetriggerReleaseIncr]_vars
  /\ [][(IsProcess /\ mStage = kReleasedToEndEarly) =>
          IF RampEnds(mEarlyReleaseIncr, EarlySamples)
            THEN mStage' = kIdle /\ mEnvValue' = T_0
            ELSE mStage' = mStage /\ mEnvValue' = mEnvValue - mEarlyReleaseIncr]_vars
  /\ [][(IsProcess /\ mStage = kAttack /\ mStage' = mStage) =>
          mEnvValue' = mEnvValue + Mul(mAttackIncr, mScalar)]_vars
  /\ [][(IsProcess /\ mStage = kDecay /\ mStage' = mStage) =>
          mEnvValue' = mEnvValue - Mul(Mul(mDecayIncr, mEnvValue), mScalar)]_vars
  /\ [][(IsProcess /\ mStage = kRelease /\ mStage' = mStage) =>
          mEnvValue' = mEnvValue - Mul(Mul(mReleaseIncr, mEnvValue), mScalar)]_vars
\* a retrigger ramp begun by Retrigger(level, 0.5), so with mScalar = 2,
\* after its first Process call: mEnvValue is 1 less one unscaled increment
C16_Witness ==
  /\ mStage = kReleasedToRetrigger /\ mScalar = 2 * T_1 /\ ret # <<>>
  /\ mEnvValue = T_1 - mRetriggerReleaseIncr /\ RetriggerSamples = 2
  /\ mReleaseLevel # T_0

(* C17: SetStageTime with a stage selector other than kAttack, kDecay and  *)
(* kRelease (kSustain, kIdle, kReleasedToRetrigger, kReleasedToEndEarly or *)
(* an integer outside EStage) changes no field: not the three              *)
(* coefficients, not the stage, not mEnvValue, nor any other.              *)
C17_IgnoredSelector ==
  [][\A st \in IgnoredSelectors, t \in StageTimes :
        SetStageTime(st, t) =>
          UNCHANGED <<coeffs, mEnvValue, mStage, mLevel, mReleaseLevel,
                      mNewStartLevel, mPrevResult, mPrevOutput, mScalar,
                      mReleased, mSustainEnabled, funcs>>]_vars
\* SetStageTime with an ignored selector has just returned in the middle
\* of a decay, with no release time set: while the note plays this caller
\* makes no other call that returns nothing
C17_Witness ==
  /\ ret = <<>> /\ mStage = kDecay /\ mEnvValue < T_1 /\ mEnvValue > T_0
  /\ mDecayIncr # T_0 /\ mReleaseIncr = T_0 /\ calls = 1

(* C18: SetSampleRate(sr) changes only mSampleRate and the early-release   *)
(* and retrigger-release coefficients, recomputed for sr.  The attack,     *)
(* decay and release coefficients keep the values computed for the         *)
(* previous sample rate, and the stage, mEnvValue, mLevel, mReleaseLevel,  *)
(* mReleased, mPrevOutput and every other field are unchanged.             *)
C18_SetSampleRateFrame ==
  [][\A sr \in SampleRates \cup NewRates :
        SetSampleRate(sr) =>
          /\ mSampleRate' = sr
          /\ mEarlyReleaseIncr' = CalcIncrFromTimeLinear(EARLY_RELEASE_TIME, sr)
          /\ mRetriggerReleaseIncr' = CalcIncrFromTimeLinear(RETRIGGER_RELEASE_TIME, sr)
          /\ UNCHANGED <<mAttackIncr, mDecayIncr, mReleaseIncr, mStage, mEnvValue,
                         mLevel, mReleaseLevel, mReleased, mPrevOutput,
                         mNewStartLevel, mPrevResult, mScalar, mSustainEnabled,
                         funcs>>]_vars
\* the sample rate has just changed from 400 Hz to 800 Hz in the middle of
\* a decay: the decay coefficient is still the one of 5 ms at 400 Hz, the
\* early-release coefficient is the one of 800 Hz
C18_Witness ==
  /\ ret = <<>> /\ mSampleRate = 8 /\ mStage = kDecay
  /\ mEnvValue < T_1 /\ mEnvValue > T_0
  /\ mDecayIncr = CalcIncrFromTimeExp(2205, 4)
  /\ mDecayIncr # CalcIncrFromTimeExp(2205, mSampleRate)
  /\ mEarlyReleaseIncr = CalcIncrFromTimeLinear(EARLY_RELEASE_TIME, mSampleRate)
  /\ mAttackIncr # T_0

\* the Process call in which an AD-only envelope releases itself
AutoRelease == IsProcess /\ mStage = kDecay /\ ~mSustainEnabled /\ mStage' = kRelease
StartCall == \E l \in Levels, t \in TimeScalars : Start(l, t)
RetriggerCall == \E l \in Levels, t \in TimeScalars : Retrigger(l, t)

(* C19: the released flag.  In every reachable state mStage = kRelease     *)
(* implies GetReleased().  Release() sets the flag, called by the host or  *)
(* by Process for an AD-only envelope, and nothing else does; Start and    *)
(* Retrigger clear it, and nothing else does; Kill (hard or soft),         *)
(* SetStageTime, SetSampleRate and every other Process call leave it       *)
(* unchanged: a step that changes the flag is none of them.                *)
C19_ReleasedFlag ==
  /\ [](mStage = kRelease => GetReleased)
  /\ [][(Release \/ AutoRelease) => GetReleased']_vars
  /\ [][(StartCall \/ RetriggerCall) => ~GetReleased']_vars
  /\ [][(~mReleased /\ mReleased') => (Release \/ AutoRelease)]_vars
  /\ [][(mReleased /\ ~mReleased') => (StartCall \/ RetriggerCall)]_vars
  /\ [][(mReleased' # mReleased) =>
          ~(\/ \E hard \in BOOLEAN : Kill(hard)
            \/ \E st \in StageSelectors, t \in StageTimes : SetStageTime(st, t)
            \/ \E sr \in SampleRates : SetSampleRate(sr)
            \/ IsProcess /\ ~AutoRelease)]_vars
\* Kill(false) has just been called on a started, unreleased voice: the
\* early-release ramp begins and GetReleased() is still false
C19_Witness ==
  /\ mStage = kReleasedToEndEarly /\ ret = <<>> /\ mEnvValue = T_1
  /\ ~GetReleased /\ mLevel # T_0 /\ mReleaseLevel = mPrevResult
  /\ mPrevResult # T_0 /\ calls = 2

\* what the Process call right after a call returns when that call leaves
\* the stage in ReleasedToRetrigger
OutputAfterRetrigger ==
  Mul(CaseReleasedToRetrigger.result, CaseReleasedToRetrigger.level)'

(* C20, as claimed: Release() and Retrigger() are not guarded by an Idle   *)
(* check.  On an Idle envelope Release() leaves GetBusy() true with        *)
(* mStage = kRelease and mReleaseLevel = 0, and Retrigger() leaves it true *)
(* with mStage = kReleasedToRetrigger; the Process call that follows       *)
(* returns 0, as does every call of a ramp whose release level is 0; the   *)
(* call that completes the ramp invokes the end-of-release callback (after *)
(* Release) or the reset callback (after Retrigger) once, when one is set; *)
(* Kill(true) and Kill(false) on an Idle envelope change no field.         *)
C20_UnguardedOnIdle ==
  /\ [][(mStage = kIdle /\ Release) =>
          /\ GetBusy' /\ mStage' = kRelease /\ mReleaseLevel' = T_0
          /\ OutputAfter = T_0]_vars
  /\ [][(mStage = kIdle /\ RetriggerCall) =>
          /\ GetBusy' /\ mStage' = kReleasedToRetrigger
          /\ OutputAfterRetrigger = T_0]_vars
  /\ [][(IsProcess /\ mStage \in {kRelease, kReleasedToRetrigger}
           /\ mReleaseLevel = T_0) => ret' = <<T_0>>]_vars
  /\ [][(IsProcess /\ mStage = kRelease /\ mStage' = kIdle) =>
          endReleaseCalls' = (IF mEndReleaseFunc THEN 1 ELSE 0)]_vars
  /\ [][(IsProcess /\ mStage = kReleasedToRetrigger /\ mStage' = kAttack) =>
          resetCalls' = (IF mResetFunc THEN 1 ELSE 0)]_vars
  /\ [][(mStage = kIdle /\ \E hard \in BOOLEAN : Kill(hard)) =>
          UNCHANGED <<coeffs, mEnvValue, mStage, mLevel, mReleaseLevel,
                      mNewStartLevel, mPrevResult, mPrevOutput, mScalar,
                      mReleased, mSustainEnabled, funcs>>]_vars
====
